---- MODULE Spec2Model ----
(***************************************************************************)
(* useHistoryState (src/index.ts): a React hook holding an undo/redo       *)
(* history {past, present, future} in a useReducer cell.  The callbacks it *)
(* returns (setState, undo, redo, reset) dispatch actions; React queues    *)
(* the dispatched actions and folds the reducer of the next render over    *)
(* the queue.  undo/redo test the canUndo/canRedo flags of the last        *)
(* render; setState is memoized with an empty dependency list and so reads *)
(* the `state` of the first render.                                        *)
(***************************************************************************)
EXTENDS Integers, Sequences, FiniteSets, TLC

\* ---- bounds of the model ------------------------------------------------
MaxVal == 2
MaxSize == 2
MaxFuture == 2
MaxQueue == 2

\* JavaScript's undefined: what an out-of-range array read yields.
undefined == 0
\* The values of T the callers supply.
Values == 1..MaxVal
\* Updater functions (prev) => T passed to setState.
ArgF == {[v \in Values |-> ((v - 1 + k) % MaxVal) + 1] : k \in 0..(MaxVal - 1)}

VARIABLES
    batched,     \* TRUE when React batches dispatches (several calls between renders)
    value,       \* the hook's `value` argument
    size,        \* the hook's `size` argument
    state,       \* the reducer state seen by the last render
    mountState,  \* the `state` of the first render (closed over by setState)
    queue,       \* actions dispatched since the last render
    lastCall,    \* the step taken last: a callback's name, or "render"
    thrown,      \* the message of the Error the last call threw, or "none"
    last,        \* history: the last action the reducer reduced
    trip,        \* history: "undone" after an UNDO, "redone" after UNDO then REDO,
                 \* "undoneSet" after UNDO then SET, "setRedone" after a REDO more
                 \* ("off" where trips are not followed)
    tripPresent, \* history: present before the UNDO that started the trip
    tripFrom,    \* history: past and future before the UNDO of an "undone" or
                 \* "redone" trip
    run,         \* history: progress of a run of sets, undos and redos from the
                 \* freshly constructed store (phase "off" where not followed)
    loud         \* history: the values that were the initial value or the payload
                 \* of a reduced SET (with the values for which this is not
                 \* followed)

vars == <<batched, value, size, state, mountState, queue, lastCall, thrown,
          last, trip, tripPresent, tripFrom, run, loud>>

\* ---- arrays ---------------------------------------------------------------
Min(a, b) == IF a < b THEN a ELSE b
Max(a, b) == IF a > b THEN a ELSE b

\* Array.prototype.slice(begin, end); negative indices count from the end.
slice2(arr, begin, end) ==
    LET len == Len(arr)
        k == IF begin < 0 THEN Max(len + begin, 0) ELSE Min(begin, len)
        final == IF end < 0 THEN Max(len + end, 0) ELSE Min(end, len)
    IN  SubSeq(arr, k + 1, final)

\* Array.prototype.slice(begin): to the end of the array.
slice(arr, begin) == slice2(arr, begin, Len(arr))

\* arr[i], zero-based; undefined outside the array.
at(arr, i) == IF 0 <= i /\ i < Len(arr) THEN arr[i + 1] ELSE undefined

\* ---- actions of the reducer -------------------------------------------------
NoAction == [type |-> "NONE", payload |-> undefined]
SET(v) == [type |-> "SET", payload |-> v]
SET_NOT_UNDOABLE(v) == [type |-> "SET_NOT_UNDOABLE", payload |-> v]
UNDO == [type |-> "UNDO", payload |-> undefined]
REDO == [type |-> "REDO", payload |-> undefined]
RESET == [type |-> "RESET", payload |-> undefined]

initState == [past |-> <<>>, present |-> value, future |-> <<>>]

\* case ActionType.SET
caseSET_sliceFront(s, action) ==
    [s EXCEPT !.past = slice(s.past, size) \o <<s.present>>,
              !.present = action.payload]

caseSET_clearFuture(s, action) ==
    [past |-> slice(s.past, 0 - size) \o <<s.present>>,
     present |-> action.payload,
     future |-> <<>>]

caseSET(s, action) ==
    [s EXCEPT !.past = slice(s.past, 0 - size) \o <<s.present>>,
              !.present = action.payload]

\* case ActionType.SET_NOT_UNDOABLE
caseSET_NOT_UNDOABLE_recorded(s, action) ==
    [s EXCEPT !.past = s.past \o <<s.present>>,
              !.present = action.payload]

caseSET_NOT_UNDOABLE(s, action) ==
    [s EXCEPT !.present = action.payload]

\* case ActionType.UNDO
caseUNDO_unshift(s) ==
    [past |-> slice2(s.past, 0, Len(s.past) - 1),
     present |-> at(s.past, Len(s.past) - 1),
     future |-> <<s.present>> \o s.future]

caseUNDO(s) ==
    [past |-> slice2(s.past, 0, Len(s.past) - 1),
     present |-> at(s.past, Len(s.past) - 1),
     future |-> s.future \o <<s.present>>]

\* case ActionType.REDO
caseREDO_oldest(s) ==
    [past |-> slice(s.past, size) \o <<s.present>>,
     present |-> at(s.future, 0),
     future |-> slice2(s.future, 1, Len(s.future))]

caseREDO(s) ==
    [past |-> slice(s.past, size) \o <<s.present>>,
     present |-> at(s.future, Len(s.future) - 1),
     future |-> slice2(s.future, 0, Len(s.future) - 1)]

\* case ActionType.RESET
caseRESET_keepPresent(s) ==
    [past |-> <<>>, present |-> s.present, future |-> <<>>]

caseRESET(s) == initState

reducer(s, action) ==
    CASE action.type = "SET" -> caseSET(s, action)
      [] action.type = "SET_NOT_UNDOABLE" -> caseSET_NOT_UNDOABLE(s, action)
      [] action.type = "UNDO" -> caseUNDO(s)
      [] action.type = "REDO" -> caseREDO(s)
      [] action.type = "RESET" -> caseRESET(s)
      [] OTHER -> s

canUndo == Len(state.past) # 0
canRedo == Len(state.future) # 0

\* ---- React: the queue of dispatched actions, reduced by the next render ---
\* g carries the reducer state and the history variables through the fold.
\* The run of k <= size undoable sets, then k undos, then k redos: vs holds the
\* values set, n counts the undos or redos reduced in the current phase.
RunOff == [phase |-> "off", vs |-> <<>>, n |-> 0]
RunStart == [phase |-> "sets", vs |-> <<>>, n |-> 0]

runNext(r, action) ==
    LET k == Len(r.vs)
    IN  CASE r.phase = "sets" /\ action.type = "SET" /\ k < size ->
                [r EXCEPT !.vs = Append(r.vs, action.payload)]
          [] r.phase = "sets" /\ action.type = "UNDO" /\ k > 0 ->
                [r EXCEPT !.phase = "undos", !.n = 1]
          [] r.phase = "undos" /\ action.type = "UNDO" /\ r.n < k ->
                [r EXCEPT !.n = r.n + 1]
          [] r.phase = "undos" /\ action.type = "REDO" /\ r.n = k ->
                [r EXCEPT !.phase = "redos", !.n = 1]
          [] r.phase = "redos" /\ action.type = "REDO" /\ r.n < k ->
                [r EXCEPT !.n = r.n + 1]
          [] OTHER -> RunOff

NoTrip == [past |-> <<>>, future |-> <<>>]

reduceOne(g, action) ==
    LET started == action.type = "UNDO" /\ Len(g.s.past) # 0
        step == IF g.trip = "off" THEN "off"
                ELSE IF started THEN "undone"
                ELSE IF action.type = "REDO" /\ g.trip = "undone" THEN "redone"
                ELSE IF action.type = "SET" /\ g.trip = "undone" THEN "undoneSet"
                ELSE IF action.type = "REDO" /\ g.trip = "undoneSet" THEN "setRedone"
                ELSE "none"
    IN  [s |-> reducer(g.s, action),
         last |-> action,
         trip |-> step,
         tripPresent |-> IF step = "undone" THEN g.s.present
                         ELSE IF step \in {"none", "off"} THEN undefined
                         ELSE g.tripPresent,
         tripFrom |-> IF step = "undone" THEN [past |-> g.s.past, future |-> g.s.future]
                      ELSE IF step = "redone" THEN g.tripFrom
                      ELSE NoTrip,
         run |-> runNext(g.run, action),
         loud |-> IF action.type = "SET" THEN g.loud \cup {action.payload}
                  ELSE g.loud]

RECURSIVE reduceQueue(_, _)
reduceQueue(g, q) ==
    IF q = <<>> THEN g ELSE reduceQueue(reduceOne(g, Head(q)), Tail(q))

\* The state the queue leads to; the model keeps future within MaxFuture.
pending == reduceQueue([s |-> state, last |-> last,
                        trip |-> trip, tripPresent |-> tripPresent,
                        tripFrom |-> tripFrom, run |-> run, loud |-> loud], queue)

\* A callback may be called: at any time when React batches, otherwise only
\* once the previous command has been rendered.
callable == batched \/ queue = <<>>

dispatch(action) ==
    /\ Len(queue) < MaxQueue
    /\ Len(reducer(pending.s, action).future) <= MaxFuture
    /\ queue' = Append(queue, action)

\* ---- the callbacks the hook returns -----------------------------------------
\* An argument of setState: a literal of T or an updater function.
Literal(v) == [isFunc |-> FALSE, lit |-> v]
Updater(f) == [isFunc |-> TRUE, fn |-> f]
Arg == {Literal(v) : v \in Values} \cup {Updater(f) : f \in ArgF}

isFunc(arg) == arg.isFunc

setState(payload, notUndoAble) ==
    LET newState == IF isFunc(payload) THEN payload.fn[mountState.present]
                    ELSE payload.lit
    IN  /\ callable
        /\ dispatch(IF notUndoAble THEN SET_NOT_UNDOABLE(newState) ELSE SET(newState))
        /\ lastCall' = "setState"
        /\ thrown' = "none"
        /\ UNCHANGED <<batched, value, size, state, mountState, last, trip, tripPresent, tripFrom, run, loud>>

undo_silent ==
    /\ callable
    /\ IF canUndo
       THEN dispatch(UNDO) /\ thrown' = "none"
       ELSE thrown' = "none" /\ UNCHANGED queue
    /\ lastCall' = "undo"
    /\ UNCHANGED <<batched, value, size, state, mountState, last, trip, tripPresent, tripFrom, run, loud>>

undo ==
    /\ callable
    /\ IF canUndo
       THEN dispatch(UNDO) /\ thrown' = "none"
       ELSE thrown' = "Undo not allowed" /\ UNCHANGED queue
    /\ lastCall' = "undo"
    /\ UNCHANGED <<batched, value, size, state, mountState, last, trip, tripPresent, tripFrom, run, loud>>

redo_silent ==
    /\ callable
    /\ IF canRedo
       THEN dispatch(REDO) /\ thrown' = "none"
       ELSE thrown' = "none" /\ UNCHANGED queue
    /\ lastCall' = "redo"
    /\ UNCHANGED <<batched, value, size, state, mountState, last, trip, tripPresent, tripFrom, run, loud>>

redo_dispatchThenThrow ==
    /\ callable
    /\ dispatch(REDO)
    /\ thrown' = (IF canRedo THEN "none" ELSE "Redo not allowed")
    /\ lastCall' = "redo"
    /\ UNCHANGED <<batched, value, size, state, mountState, last, trip, tripPresent, tripFrom, run, loud>>

redo ==
    /\ callable
    /\ IF canRedo
       THEN dispatch(REDO) /\ thrown' = "none"
       ELSE thrown' = "Redo not allowed" /\ UNCHANGED queue
    /\ lastCall' = "redo"
    /\ UNCHANGED <<batched, value, size, state, mountState, last, trip, tripPresent, tripFrom, run, loud>>

reset ==
    /\ callable
    /\ dispatch(RESET)
    /\ lastCall' = "reset"
    /\ thrown' = "none"
    /\ UNCHANGED <<batched, value, size, state, mountState, last, trip, tripPresent, tripFrom, run, loud>>

\* A render: the hook runs again and useReducer reduces the queued actions.
Render ==
    /\ queue # <<>>
    /\ state' = pending.s
    /\ last' = pending.last
    /\ trip' = pending.trip
    /\ tripPresent' = pending.tripPresent
    /\ tripFrom' = pending.tripFrom
    /\ run' = pending.run
    /\ loud' = pending.loud
    /\ queue' = <<>>
    /\ lastCall' = "render"
    /\ thrown' = "none"
    /\ UNCHANGED <<batched, value, size, mountState>>

\* The owner renders the hook again with another `value` argument; nothing is
\* queued, so the state stays and initState is rebuilt from the new argument.
Rerender(v) ==
    /\ queue = <<>>
    /\ v # value
    /\ value' = v
    /\ lastCall' = "render"
    /\ thrown' = "none"
    /\ UNCHANGED <<batched, size, state, mountState, queue, last, trip,
                   tripPresent, tripFrom, run, loud>>

\* ---- specification ------------------------------------------------------------
\* The store after construction; b tells whether React batches dispatches.
mount(b) ==
    /\ batched = b
    /\ value \in Values
    /\ size \in 1..MaxSize
    /\ state = initState
    /\ mountState = initState
    /\ queue = <<>>
    /\ lastCall = "render"
    /\ thrown = "none"
    /\ last = NoAction
    /\ tripPresent = undefined
    /\ tripFrom = NoTrip

\* One command at a time, each rendered before the next is issued.
Init == mount(FALSE) /\ trip = "none" /\ run = RunOff /\ loud = Values

\* Several commands may be issued between two renders.
InitBatch == mount(TRUE) /\ trip = "none" /\ run = RunOff /\ loud = Values

\* One command at a time, following for one value of T (MaxVal; the values are
\* interchangeable) whether it was the initial value or written by an undoable
\* set.
InitSilent ==
    /\ mount(FALSE)
    /\ trip = "off"
    /\ run = RunOff
    /\ loud = (Values \ {MaxVal}) \cup {value}

\* One command at a time, following the run of sets, undos and redos.
InitRun == mount(FALSE) /\ trip = "off" /\ run = RunStart /\ loud = Values

Next ==
    \/ \E payload \in Arg, notUndoAble \in BOOLEAN : setState(payload, notUndoAble)
    \/ undo
    \/ redo
    \/ reset
    \/ Render

Spec == Init /\ [][Next]_vars

SpecBatch == InitBatch /\ [][Next]_vars

SpecSilent == InitSilent /\ [][Next]_vars

SpecRun == InitRun /\ [][Next]_vars

\* The hook's owner may also render it again with another value argument.
NextProps ==
    \/ Next
    \/ \E v \in Values : Rerender(v)

SpecProps == Init /\ [][NextProps]_vars

\* ---- properties -----------------------------------------------------------------
\* The last n elements of a sequence, in order.
LastN(seq, n) ==
    IF Len(seq) <= n THEN seq ELSE SubSeq(seq, Len(seq) - n + 1, Len(seq))

\* All but the last element of a sequence.
Front(seq) == SubSeq(seq, 1, Len(seq) - 1)

\* A render that reduces exactly one action of the given type.
Reduces(type) ==
    /\ lastCall' = "render"
    /\ Len(queue) = 1
    /\ queue[1].type = type

\* C1: in every reachable state the length of past is at most the capacity
\* (size).
C1_PastWithinCapacity == Len(state.past) <= size

\* C2: from a state with non-empty past, undo() immediately followed by
\* redo() leaves present equal to the value it held before the undo().
C2_UndoRedoRestoresPresent == trip = "redone" => state.present = tripPresent

\* An undo() that changed present, then a redo(), both rendered.
C2_Witness ==
    /\ trip = "redone"
    /\ lastCall = "render"
    /\ state.present = tripPresent
    /\ at(state.past, Len(state.past) - 1) # state.present

\* C3: with non-empty future, redo() sets present to the last element of
\* future, future to all but its last element, and past to the old past with
\* the old present appended, dropping entries from the front only as far as
\* the capacity bound needs.
C3_RedoEffect ==
    [][(Reduces("REDO") /\ Len(state.future) # 0) =>
          /\ state'.present = state.future[Len(state.future)]
          /\ state'.future = Front(state.future)
          /\ state'.past = LastN(state.past \o <<state.present>>, size)]_vars

\* C4: set(f) with a function f is resolved against the present value current
\* at the time of the call: with present = p it dispatches the payload f(p).
C4_UpdaterSeesPresent ==
    [][\A f \in ArgF, notUndoAble \in BOOLEAN :
          (queue = <<>> /\ setState(Updater(f), notUndoAble)) =>
              queue'[1].payload = f[state.present]]_vars

\* C5: from every reachable state reset() yields present equal to the initial
\* value, past empty and future empty.
C5_ResetToBaseline ==
    [][Reduces("RESET") =>
          state' = [past |-> <<>>, present |-> mountState.present,
                    future |-> <<>>]]_vars

\* reset() has been called, and its RESET is about to be reduced, on a store
\* whose past is full, whose future is not empty and whose present is not the
\* initial value.
C5_Witness ==
    /\ lastCall = "reset"
    /\ queue = <<RESET>>
    /\ Len(state.past) = size + 1
    /\ Len(state.future) > 0
    /\ state.present # mountState.present

\* C6: undo() called when past is empty throws 'Undo not allowed', dispatches
\* nothing and leaves the state as it was.
C6_UndoRefused ==
    [][(lastCall' = "undo" /\ Len(state.past) = 0) =>
          /\ thrown' = "Undo not allowed"
          /\ queue' = queue
          /\ state' = state]_vars

\* undo() has thrown in the state right after a reset.
C6_Witness ==
    /\ lastCall = "undo"
    /\ thrown = "Undo not allowed"
    /\ last = RESET
    /\ queue = <<>>

\* C7: redo() called when future is empty throws 'Redo not allowed',
\* dispatches nothing and leaves the state as it was.
C7_RedoRefused ==
    [][(lastCall' = "redo" /\ Len(state.future) = 0) =>
          /\ thrown' = "Redo not allowed"
          /\ queue' = queue
          /\ state' = state]_vars

\* redo() has thrown on the freshly constructed store.
C7_Witness ==
    /\ lastCall = "redo"
    /\ thrown = "Redo not allowed"
    /\ last = NoAction
    /\ state = initState
    /\ queue = <<>>

\* C8: whenever undo() or redo() throws, past, present and future are what
\* they were before the call, and no action is left to change them.
C8_FailureHasNoEffect ==
    [][(lastCall' \in {"undo", "redo"} /\ thrown' # "none") =>
          /\ state' = state
          /\ queue' = queue]_vars

\* redo() has thrown in a state that holds history.
C8_Witness ==
    /\ lastCall = "redo"
    /\ thrown = "Redo not allowed"
    /\ Len(state.past) > 1
    /\ queue = <<>>

\* C9: a silent update changes only present: set with the not-undoable flag
\* dispatches SET_NOT_UNDOABLE, and reducing it leaves past and future as
\* they were.
C9_SilentSetFrame ==
    [][/\ \A payload \in Arg :
             setState(payload, TRUE) =>
                 queue'[Len(queue')].type = "SET_NOT_UNDOABLE"
       /\ Reduces("SET_NOT_UNDOABLE") =>
             /\ state'.present = queue[1].payload
             /\ state'.past = state.past
             /\ state'.future = state.future]_vars

\* A silent update has been reduced in a state with past and future.
C9_Witness ==
    /\ last.type = "SET_NOT_UNDOABLE"
    /\ lastCall = "render"
    /\ state.present = last.payload
    /\ Len(state.past) > 0
    /\ Len(state.future) > 0

\* C10: an undoable set(v) yields present = v and past = the last capacity
\* elements of the old past followed by the old present.
C10_SetEffect ==
    [][Reduces("SET") =>
          /\ state'.present = queue[1].payload
          /\ state'.past = LastN(state.past, size) \o <<state.present>>]_vars

\* An undoable set has been reduced and past holds the retained entries and
\* the old present.
C10_Witness ==
    /\ last.type = "SET"
    /\ lastCall = "render"
    /\ state.present = last.payload
    /\ Len(state.past) = size + 1
    /\ state.past[1] # state.past[2]

\* C11: with non-empty past, undo() sets present to the last element of past,
\* past to all but its last element, and future to the old future with the
\* old present appended at the end.
C11_UndoEffect ==
    [][(Reduces("UNDO") /\ Len(state.past) # 0) =>
          /\ state'.present = state.past[Len(state.past)]
          /\ state'.past = Front(state.past)
          /\ state'.future = Append(state.future, state.present)]_vars

\* An undo() has been reduced onto a future that already held an entry, and
\* it left entries in past.
C11_Witness ==
    /\ last = UNDO
    /\ lastCall = "render"
    /\ trip = "undone"
    /\ Len(state.future) = 2
    /\ state.future[2] = tripPresent
    /\ state.future[1] # state.future[2]
    /\ Len(state.past) > 0

\* C12: in every state reachable by calls of the returned callbacks, present
\* holds a value of T (the initial value or one supplied by a set); it is
\* never undefined.
C12_PresentDefined == state.present \in Values

\* A sequence in reverse order.
Reverse(seq) == [i \in 1..Len(seq) |-> seq[Len(seq) + 1 - i]]

\* The values of a history in order: past, present, then future from the
\* nearest redo target to the farthest.
Timeline(s) == s.past \o <<s.present>> \o Reverse(s.future)

\* C13: undo and redo only move values between past, present and future: when
\* the operation is allowed and past is shorter than capacity,
\* past ++ [present] ++ reverse(future) is the same before and after it.
C13_UndoRedoOnlyMove ==
    [][(/\ Len(state.past) < size
        /\ \/ Reduces("UNDO") /\ Len(state.past) # 0
           \/ Reduces("REDO") /\ Len(state.future) # 0) =>
          Timeline(state') = Timeline(state)]_vars

\* C14: an undoable set does not clear future: after undo() followed by an
\* undoable set(x), future is unchanged by the set and canRedo is still true,
\* and a following redo() makes present the value the undo() removed.
C14_SetKeepsFuture ==
    [][/\ (Reduces("SET") /\ trip = "undone") =>
              (state'.future = state.future /\ canRedo')
       /\ (Reduces("REDO") /\ trip = "undoneSet") =>
              state'.present = tripPresent]_vars

\* undo(), set(x) and redo() have been rendered in turn; present is the value
\* the undo() removed and differs from x, which redo() moved to past.
C14_Witness ==
    /\ trip = "setRedone"
    /\ lastCall = "render"
    /\ state.present = tripPresent
    /\ at(state.past, Len(state.past) - 1) # state.present

\* The values a sequence holds.
Range(seq) == {seq[i] : i \in 1..Len(seq)}

\* The values held in past or in future.
Recorded(s) == Range(s.past) \cup Range(s.future)

\* C15: a value written only by a silent set never appears in past or in
\* future.
C15_SilentNeverRecorded == Recorded(state) \subseteq loud

\* C15, amended: a value written only by a silent set appears in past or in
\* future only by being the present value when an undoable set, an undo or a
\* redo is applied.
C15_SilentRecordedFromPresent ==
    [][\A v \in Values \ loud' :
          (v \in Recorded(state') /\ v \notin Recorded(state)) =>
              /\ v = state.present
              /\ Reduces("SET") \/ Reduces("UNDO") \/ Reduces("REDO")]_vars

\* An undoable set has moved a value written only by a silent set from
\* present to past.
C15_Witness ==
    /\ last.type = "SET"
    /\ lastCall = "render"
    /\ Len(state.past) > 0
    /\ state.past[Len(state.past)] \notin loud

\* C16: from the freshly constructed store with initial value v0, after k
\* undoable sets of v1..vk with k <= capacity, k undo() calls are all allowed
\* and make present v(k-1), ..., v0, after which canUndo is false; k redo()
\* calls are then all allowed and make present v1, ..., vk, after which
\* canRedo is false.
C16_SetsUndosRedos ==
    LET k == Len(run.vs)
        v == <<mountState.present>> \o run.vs
    IN  /\ (run.phase = "sets" /\ k > 0) => canUndo
        /\ run.phase = "undos" =>
              /\ state.present = v[k - run.n + 1]
              /\ canUndo = (run.n < k)
              /\ canRedo
        /\ run.phase = "redos" =>
              /\ state.present = run.vs[run.n]
              /\ canRedo = (run.n < k)

\* size sets of values that differ, size undos and size redos have been
\* rendered.
C16_Witness ==
    /\ run.phase = "redos"
    /\ lastCall = "render"
    /\ Len(run.vs) = size
    /\ run.n = size
    /\ size > 1
    /\ run.vs[1] # run.vs[2]
    /\ run.vs[1] # mountState.present

\* C17: reset() returns present to the value supplied when the store was
\* constructed, even if the hook was rendered again with another value
\* argument before the reset().
C17_ResetToConstructionValue ==
    [][Reduces("RESET") => state'.present = mountState.present]_vars

\* The reducer state the i-th queued action will be reduced on.
ReducedOn(i) ==
    reduceQueue([s |-> state, last |-> last, trip |-> trip,
                 tripPresent |-> tripPresent, tripFrom |-> tripFrom,
                 run |-> run, loud |-> loud],
                SubSeq(queue, 1, i - 1)).s

\* C18: every UNDO that reaches the reducer finds past non-empty and every
\* REDO finds future non-empty, also when several undo()/redo() calls are
\* issued between two renders.
C18_GuardHoldsAtReducer ==
    \A i \in 1..Len(queue) :
        /\ queue[i].type = "UNDO" => Len(ReducedOn(i).past) # 0
        /\ queue[i].type = "REDO" => Len(ReducedOn(i).future) # 0

\* C19: from a state with non-empty past, undo() immediately followed by
\* redo() restores the whole state: past and future after the pair equal past
\* and future before it.
C19_UndoRedoRestoresState ==
    trip = "redone" =>
        /\ state.past = tripFrom.past
        /\ state.future = tripFrom.future

====
